---- MODULE Spec2Model ----
(***************************************************************************)
(* A model of src/main.rs, the shell prompt renderer.                      *)
(*                                                                         *)
(* One invocation of the program parses its arguments, asks git whether    *)
(* the working directory is a work tree, then runs up to five async        *)
(* functions under one futures::join!, each of which spawns child          *)
(* processes (git, kubectl) and maps their output to a value, and finally  *)
(* prints one block.  A child process is modelled by its entry in q: it is *)
(* spawned (or fails to spawn), and later exits with a status and a        *)
(* stdout, both chosen by the environment.  The step that observes an exit *)
(* runs the awaiting function as far as the code runs it before the next   *)
(* await.  A panic (unwrap on Err, expect on Err) ends the invocation.     *)
(*                                                                         *)
(* Text is a sequence of one-character strings; a process's stdout is a    *)
(* sequence of bytes, one of which (BadByte) is not valid UTF-8.           *)
(***************************************************************************)
EXTENDS Integers, Sequences, FiniteSets, TLC

\* ------------------------------------------------------------------ bounds

\* The longest stdout the environment produces in the function-level
\* specifications.
MaxLen == 2

\* The longest value the environment gives a variable in the specification
\* of the two environment reads.
MaxEnvLen == 1

\* ------------------------------------------------------------------- text

\* A byte that makes String::from_utf8 fail.
BadByte == "\\xFF"

\* char::is_whitespace holds of these.
Whitespace == {" ", "\n"}

\* The bytes a stdout is made of in the function-level specifications.
Bytes == {"a", "\n", BadByte}

\* Every byte sequence of at most n bytes.
BytesUpTo(n) == UNION {[1..k -> Bytes] : k \in 0..n}

\* String::from_utf8(bytes).is_ok()
from_utf8_ok(bytes) == \A i \in 1..Len(bytes) : bytes[i] # BadByte

IsNotWhitespace(c) == c \notin Whitespace

\* x.retain(|c| !c.is_whitespace())
retain_non_whitespace(x) == SelectSeq(x, IsNotWhitespace)

\* Option<T>, and the value of a function that has not returned yet.
None == [k |-> "None"]
Some(v) == [k |-> "Some", v |-> v]
Pending == [k |-> "Pending"]

\* opt.unwrap_or(d)
unwrap_or(opt, d) == IF opt.k = "Some" THEN opt.v ELSE d

\* "-".to_string()
Placeholder == <<"-">>

\* The literal the repository probe compares with.
TrueText == <<"t", "r", "u", "e">>
FalseText == <<"f", "a", "l", "s", "e">>

\* ------------------------------------------------------- child processes

\* The commands the program spawns, by the call that spawns them.
GitIdentity == {"git branch --show-current", "git rev-parse --short HEAD",
                "git tag --points-at HEAD"}
GitUnstaged == {"git diff --quiet", "git diff --cached --quiet",
                "git ls-files --other --directory --exclude-standard"}
GitUnpushed == {"git log @{u}..", "git rev-parse HEAD", "git rev-parse @{u}"}
Probe == "git rev-parse --is-inside-work-tree"
GitGated == GitIdentity \cup GitUnstaged \cup GitUnpushed
Kubectl == {"kubectl config current-context",
            "kubectl config view --minify --output jsonpath={..namespace}"}
Commands == {Probe} \cup GitGated \cup Kubectl

\* What a child process that ran to its end leaves: Output.status.success()
\* and Output.stdout.
Exit(ok, out) == [ok |-> ok, out |-> out]

\* A process table entry: st is "idle" (never spawned), "running", "exited",
\* "error" (Command::output() gave Err: the process did not launch),
\* "timeout" (the timer around its future expired first) or "dropped" (its
\* future was dropped while it ran).
Idle == [st |-> "idle", ok |-> FALSE, out |-> <<>>]
Running == [st |-> "running", ok |-> FALSE, out |-> <<>>]
Failed == [st |-> "error", ok |-> FALSE, out |-> <<>>]
Exited(o) == [st |-> "exited", ok |-> o.ok, out |-> o.out]

\* Every outcome of a process that launched, stdout up to MaxLen bytes.
Outcomes == {Exit(ok, out) : ok \in BOOLEAN, out \in BytesUpTo(MaxLen)}

\* ------------------------------------------- the values the functions map
\* ------------------------------------------- a finished command to

\* Lines 73-88, 98-113 and 124-139 share one shape: Err and a non-zero exit
\* give None; so do non-text output and output that is empty once the
\* whitespace is removed.
get_git_tag(r) ==
    IF r.st # "exited" THEN None
    ELSE IF ~r.ok THEN None
    ELSE IF ~from_utf8_ok(r.out) THEN None
    ELSE LET x == retain_non_whitespace(r.out)
         IN  IF Len(x) = 0 THEN None ELSE Some(x)

get_git_branch(r) ==
    IF r.st # "exited" THEN None
    ELSE IF ~r.ok THEN None
    ELSE IF ~from_utf8_ok(r.out) THEN None
    ELSE LET x == retain_non_whitespace(r.out)
         IN  IF Len(x) = 0 THEN None ELSE Some(x)

get_git_commit(r) ==
    IF r.st # "exited" THEN None
    ELSE IF ~r.ok THEN None
    ELSE IF ~from_utf8_ok(r.out) THEN None
    ELSE LET x == retain_non_whitespace(r.out)
         IN  IF Len(x) = 0 THEN None ELSE Some(x)

\* An is_in_git_repository that does not look at the exit status.
is_in_git_repository_any_status(r) ==
    IF r.st # "exited" THEN FALSE
    ELSE IF ~from_utf8_ok(r.out) THEN FALSE
    ELSE retain_non_whitespace(r.out) = TrueText

\* Lines 41-52.
is_in_git_repository(r) ==
    IF r.st # "exited" THEN FALSE
    ELSE IF ~r.ok THEN FALSE
    ELSE IF ~from_utf8_ok(r.out) THEN FALSE
    ELSE retain_non_whitespace(r.out) = TrueText

\* A get_best_git_name that prefers the commit to the branch.
get_best_git_name_commit_first(branch, commit, tag) ==
    unwrap_or(commit, unwrap_or(branch, <<>>))
        \o (IF tag.k = "Some" THEN <<" ", "[">> \o tag.v \o <<"]">> ELSE <<>>)

\* Line 62: branch.unwrap_or(commit.unwrap_or("")) + &tag.map(" [" + t + "]")
\*          .unwrap_or("")
get_best_git_name(branch, commit, tag) ==
    unwrap_or(branch, unwrap_or(commit, <<>>))
        \o (IF tag.k = "Some" THEN <<" ", "[">> \o tag.v \o <<"]">> ELSE <<>>)

\* Line 245: output.unwrap() panics when the command did not launch; the exit
\* status is not looked at, and the text is kept even when it is empty.
Panic == [k |-> "Panic"]

get_k8s_context(r) ==
    IF r.st # "exited" THEN Panic
    ELSE IF ~from_utf8_ok(r.out) THEN None
    ELSE Some(retain_non_whitespace(r.out))

\* Lines 261-272.
get_k8s_namespace(r) ==
    IF r.st # "exited" THEN None
    ELSE IF ~r.ok THEN None
    ELSE IF ~from_utf8_ok(r.out) THEN None
    ELSE Some(retain_non_whitespace(r.out))

\* Line 172 and line 199: output.map(|x| x.stdout.len() == 0).unwrap_or(false)
stdout_is_empty(r) ==
    IF r.st # "exited" THEN FALSE ELSE Len(r.out) = 0

\* Lines 162-182, once both diff futures are resolved (d1 may be "timeout")
\* and, when the code runs it, git ls-files is too.  The result is the
\* enum's variant, "Pending" while git ls-files runs.
UnstagedChanges == {"None", "FilesChanged", "FilesNotAdded"}

\* An unstaged_after_diffs that forgets output2.status on line 163.
unstaged_after_diffs_first_only(d1, d2) ==
    IF d1.st # "exited" \/ d2.st # "exited" THEN "FilesChanged"
    ELSE IF d1.ok THEN "Pending"
    ELSE "FilesChanged"

\* An unstaged_after_diffs that takes the expired timer of line 154 for a
\* git diff --quiet that found no difference.
unstaged_after_diffs_timeout_quiet(d1, d2) ==
    IF d1.st = "timeout" /\ d2.st \in {"dropped", "exited"} THEN "Pending"
    ELSE IF d1.st # "exited" \/ d2.st # "exited" THEN "FilesChanged"
    ELSE IF d1.ok /\ d2.ok THEN "Pending"
    ELSE "FilesChanged"

unstaged_after_diffs(d1, d2) ==
    IF d1.st # "exited" \/ d2.st # "exited" THEN "FilesChanged"
    ELSE IF d1.ok /\ d2.ok THEN "Pending"
    ELSE "FilesChanged"

unstaged_after_ls_files(ls) ==
    IF stdout_is_empty(ls) THEN "None" ELSE "FilesNotAdded"

\* Lines 212-232, once both rev-parse futures are resolved.
UnpushedChanges == {"None", "UnpushedChanges", "UnpulledChanges",
                    "NoUpstreamBranch"}

\* Line 212: the text of git rev-parse HEAD, kept even when empty.
head_hash(r) ==
    IF ~from_utf8_ok(r.out) THEN None
    ELSE Some(retain_non_whitespace(r.out))

\* Line 217: the text of git rev-parse @{u}, None when empty.
upstream_hash(r) ==
    IF ~from_utf8_ok(r.out) THEN None
    ELSE LET x == retain_non_whitespace(r.out)
         IN  IF Len(x) = 0 THEN None ELSE Some(x)

\* An unpushed_after_rev_parse that compares the two outputs as they are,
\* without lines 213 and 218.
unpushed_after_rev_parse_raw(h, up) ==
    IF h.st # "exited" \/ up.st # "exited" THEN "Panic"
    ELSE IF upstream_hash(up) = None THEN "NoUpstreamBranch"
    ELSE IF h.out = up.out THEN "None"
    ELSE "UnpulledChanges"

unpushed_after_rev_parse(h, up) ==
    IF h.st # "exited" \/ up.st # "exited" THEN "Panic"
    ELSE LET head == head_hash(h)
             u == upstream_hash(up)
         IN  IF u = None THEN "NoUpstreamBranch"
             ELSE IF head = u THEN "None"
             ELSE "UnpulledChanges"

\* Lines 275-281.  An environment maps a variable's name to None (not set)
\* or to Some bytes.
EnvVars == {"AWS_PROFILE", "AWS_REGION", "AWS_DEFAULT_REGION",
            "AWS_PROFILE_REGION"}

\* env::var(name).ok(): env::var is Err for a variable that is not set and
\* for one whose value is not valid Unicode.
env_var_ok(e, name) ==
    IF e[name].k = "Some" /\ from_utf8_ok(e[name].v) THEN e[name] ELSE None

or_else(a, b) == IF a.k = "Some" THEN a ELSE b

get_aws_profile(e) == env_var_ok(e, "AWS_PROFILE")

\* A get_aws_region that asks for AWS_DEFAULT_REGION first.
get_aws_region_default_first(e) ==
    or_else(or_else(env_var_ok(e, "AWS_DEFAULT_REGION"),
                    env_var_ok(e, "AWS_REGION")),
            env_var_ok(e, "AWS_PROFILE_REGION"))

get_aws_region(e) ==
    or_else(or_else(env_var_ok(e, "AWS_REGION"),
                    env_var_ok(e, "AWS_DEFAULT_REGION")),
            env_var_ok(e, "AWS_PROFILE_REGION"))

\* ------------------------------------------------------------------ state

VARIABLES
    pc,        \* where main is: "main", "probe", "poll <function>" (the first
               \* poll of join! reaches that function), "join", "done"
    inv,       \* what the invocation is given: arguments, directory, environment
    q,         \* the child processes, by command
    launches,  \* how many times each command has been spawned
    ret,       \* the value each async function returned, Pending before
    panicked,  \* the function whose unwrap or expect panicked, "" when none
    frame,     \* main's locals of lines 298-304
    printed    \* the blocks written by println!

vars == <<pc, inv, q, launches, ret, panicked, frame, printed>>

Functions == {"is_in_git_repository", "get_k8s_context", "get_k8s_namespace",
              "get_git_branch", "get_git_commit", "get_git_tag",
              "get_best_git_name", "get_unstaged_changes",
              "get_unpushed_changes"}

Bool(b) == [k |-> "bool", v |-> b]
String(s) == [k |-> "String", v |-> s]
Variant(e) == [k |-> e]

Resolved(r) == r.st \in {"exited", "error"}

\* Command::output(): the commands cmds are spawned, those in failed do not
\* launch.
Launch(procs, cmds, failed) ==
    [c \in Commands |->
        IF c \in failed THEN Failed
        ELSE IF c \in cmds THEN Running
        ELSE procs[c]]

Counted(n, cmds) == [c \in Commands |-> IF c \in cmds THEN n[c] + 1 ELSE n[c]]

\* A future that is dropped while its process runs.
Drop(procs, cmds) ==
    [c \in Commands |->
        IF c \in cmds /\ procs[c].st = "running"
        THEN [procs[c] EXCEPT !.st = "dropped"]
        ELSE procs[c]]

\* ------------------------------------------------------------ invocations

NoEnv == [v \in EnvVars |-> None]

\* The arguments, working directory and environment of the invocations the
\* whole-program specification runs.
Invocations ==
    { [exit_code |-> 0, message |-> None, cwd |-> Some(<<"~">>),
       env |-> [NoEnv EXCEPT !["AWS_PROFILE"] = Some(<<"d", "e", "v">>)]],
      [exit_code |-> 1, message |-> Some(<<"m">>), cwd |-> Some(<<"~">>),
       env |-> [NoEnv EXCEPT !["AWS_REGION"] = Some(<<"r", "1">>),
                             !["AWS_DEFAULT_REGION"] = Some(<<"r", "2">>),
                             !["AWS_PROFILE_REGION"] = Some(<<"r", "3">>)]],
      [exit_code |-> 0, message |-> Some(<<>>), cwd |-> None,
       env |-> NoEnv] }

\* The invocation a function-level specification calls its function in.
Harness == [exit_code |-> 0, message |-> None, cwd |-> Some(<<"~">>),
            env |-> NoEnv]

NoFrame == [aws_profile |-> <<>>, aws_region |-> <<>>, chevron_a |-> ""]

InitWith(invocations, at) ==
    /\ pc = at
    /\ inv \in invocations
    /\ q = [c \in Commands |-> Idle]
    /\ launches = [c \in Commands |-> 0]
    /\ ret = [f \in Functions |-> Pending]
    /\ panicked = ""
    /\ frame = NoFrame
    /\ printed = <<>>

Init == InitWith(Invocations, "main")

\* --------------------------------------------------- the async functions
\* Each function has a Call action (its future is polled for the first time:
\* it runs to its first await, spawning what it spawns on the way) and one
\* action per event it awaits.  These actions say what happens to q,
\* launches, ret and panicked; what main does around them is said by the
\* actions of main further down.  dom[c] is the set of outcomes command c
\* can exit with.

CmdContext == "kubectl config current-context"
CmdNamespace == "kubectl config view --minify --output jsonpath={..namespace}"
CmdBranch == "git branch --show-current"
CmdCommit == "git rev-parse --short HEAD"
CmdTag == "git tag --points-at HEAD"
CmdDiff == "git diff --quiet"
CmdDiffCached == "git diff --cached --quiet"
CmdLsFiles == "git ls-files --other --directory --exclude-standard"
CmdLog == "git log @{u}.."
CmdRevParseHead == "git rev-parse HEAD"
CmdRevParseUpstream == "git rev-parse @{u}"

\* get_k8s_context, lines 238-249.
ContextReturns(procs) ==
    IF ~Resolved(procs[CmdContext]) THEN UNCHANGED <<ret, panicked>>
    ELSE IF get_k8s_context(procs[CmdContext]) = Panic
    THEN panicked' = "get_k8s_context" /\ UNCHANGED ret
    ELSE /\ ret' = [ret EXCEPT !["get_k8s_context"] =
                        get_k8s_context(procs[CmdContext])]
         /\ UNCHANGED panicked

CallContext ==
    /\ panicked = ""
    /\ q[CmdContext].st = "idle"
    /\ \E failed \in SUBSET {CmdContext} :
          /\ q' = Launch(q, {CmdContext}, failed)
          /\ launches' = Counted(launches, {CmdContext})
          /\ ContextReturns(q')

ContextExits(dom) ==
    /\ panicked = ""
    /\ q[CmdContext].st = "running"
    /\ \E o \in dom[CmdContext] :
          /\ q' = [q EXCEPT ![CmdContext] = Exited(o)]
          /\ ContextReturns(q')
    /\ UNCHANGED launches

\* get_k8s_namespace, lines 251-273.
NamespaceReturns(procs) ==
    IF ~Resolved(procs[CmdNamespace]) THEN UNCHANGED <<ret, panicked>>
    ELSE /\ ret' = [ret EXCEPT !["get_k8s_namespace"] =
                        get_k8s_namespace(procs[CmdNamespace])]
         /\ UNCHANGED panicked

CallNamespace ==
    /\ panicked = ""
    /\ q[CmdNamespace].st = "idle"
    /\ \E failed \in SUBSET {CmdNamespace} :
          /\ q' = Launch(q, {CmdNamespace}, failed)
          /\ launches' = Counted(launches, {CmdNamespace})
          /\ NamespaceReturns(q')

NamespaceExits(dom) ==
    /\ panicked = ""
    /\ q[CmdNamespace].st = "running"
    /\ \E o \in dom[CmdNamespace] :
          /\ q' = [q EXCEPT ![CmdNamespace] = Exited(o)]
          /\ NamespaceReturns(q')
    /\ UNCHANGED launches

\* get_best_git_name, lines 55-63, and the three functions it joins, lines
\* 65-140: each of the three returns when its command is resolved, and
\* line 62 runs when all three have returned.
\* A join! that is ready as soon as one of its three futures is.
Joined3_first_ready(procs) == \E c \in GitIdentity : Resolved(procs[c])

Joined3(procs) == \A c \in GitIdentity : Resolved(procs[c])

IdentityReturns(procs) ==
    /\ ret' = [ret EXCEPT
          !["get_git_branch"] =
              IF Resolved(procs[CmdBranch])
              THEN get_git_branch(procs[CmdBranch]) ELSE Pending,
          !["get_git_commit"] =
              IF Resolved(procs[CmdCommit])
              THEN get_git_commit(procs[CmdCommit]) ELSE Pending,
          !["get_git_tag"] =
              IF Resolved(procs[CmdTag])
              THEN get_git_tag(procs[CmdTag]) ELSE Pending,
          !["get_best_git_name"] =
              IF Joined3(procs)
              THEN String(get_best_git_name(get_git_branch(procs[CmdBranch]),
                                            get_git_commit(procs[CmdCommit]),
                                            get_git_tag(procs[CmdTag])))
              ELSE Pending]
    /\ UNCHANGED panicked

CallBestGitName ==
    /\ panicked = ""
    /\ \A c \in GitIdentity : q[c].st = "idle"
    /\ \E failed \in SUBSET GitIdentity :
          /\ q' = Launch(q, GitIdentity, failed)
          /\ launches' = Counted(launches, GitIdentity)
          /\ IdentityReturns(q')

IdentityExits(dom) ==
    /\ panicked = ""
    /\ \E c \in GitIdentity :
          /\ q[c].st = "running"
          /\ \E o \in dom[c] :
                /\ q' = [q EXCEPT ![c] = Exited(o)]
                /\ IdentityReturns(q')
    /\ UNCHANGED launches

\* get_unstaged_changes, lines 148-183.  Command::output() spawns the child
\* when it is called, so both diff commands are spawned (lines 149-160)
\* before try_join! polls them; try_join! is ready as soon as one of its
\* futures gives Err (a failed launch, the expired timer), and the other
\* future is then dropped.
Diffs == {CmdDiff, CmdDiffCached}

UnstagedReturns(v) ==
    /\ ret' = [ret EXCEPT !["get_unstaged_changes"] = Variant(v)]
    /\ UNCHANGED panicked

CallUnstagedChanges ==
    /\ panicked = ""
    /\ \A c \in GitUnstaged : q[c].st = "idle"
    /\ \E failed \in SUBSET Diffs :
          LET spawned == Launch(q, Diffs, failed)
          IN  /\ launches' = Counted(launches, Diffs)
              /\ IF failed # {}
                 THEN /\ q' = Drop(spawned, Diffs)
                      /\ UnstagedReturns(unstaged_after_diffs(spawned[CmdDiff],
                                                  spawned[CmdDiffCached]))
                 ELSE /\ q' = spawned
                      /\ UNCHANGED <<ret, panicked>>

\* Lines 163-179, run by the poll that finds both diffs exited.
UnstagedAfterJoin(exited) ==
    LET v == unstaged_after_diffs(exited[CmdDiff], exited[CmdDiffCached])
    IN  IF v = "Pending"
        THEN \E failed \in SUBSET {CmdLsFiles} :
                /\ q' = Launch(exited, {CmdLsFiles}, failed)
                /\ launches' = Counted(launches, {CmdLsFiles})
                /\ IF failed # {}
                   THEN UnstagedReturns(unstaged_after_ls_files(Failed))
                   ELSE UNCHANGED <<ret, panicked>>
        ELSE /\ q' = exited
             /\ UnstagedReturns(v)
             /\ UNCHANGED launches

DiffExits(dom) ==
    /\ panicked = ""
    /\ \E c \in Diffs :
          /\ q[c].st = "running"
          /\ \E o \in dom[c] :
                LET exited == [q EXCEPT ![c] = Exited(o)]
                IN  IF \E d \in Diffs : exited[d].st = "running"
                    THEN /\ q' = exited
                         /\ UNCHANGED <<launches, ret, panicked>>
                    ELSE UnstagedAfterJoin(exited)

\* Line 154: the 500 ms timer expires before git diff --quiet has exited.
DiffTimesOut ==
    /\ panicked = ""
    /\ q[CmdDiff].st = "running"
    /\ LET expired == [q EXCEPT ![CmdDiff] = [@ EXCEPT !.st = "timeout"]]
       IN  /\ q' = Drop(expired, Diffs)
           /\ UnstagedReturns(unstaged_after_diffs(expired[CmdDiff],
                                                   expired[CmdDiffCached]))
    /\ UNCHANGED launches

LsFilesExits(dom) ==
    /\ panicked = ""
    /\ q[CmdLsFiles].st = "running"
    /\ \E o \in dom[CmdLsFiles] :
          /\ q' = [q EXCEPT ![CmdLsFiles] = Exited(o)]
          /\ UnstagedReturns(unstaged_after_ls_files(q'[CmdLsFiles]))
    /\ UNCHANGED launches

\* get_unpushed_changes, lines 192-236.  join! (line 210) is ready when both
\* rev-parse futures are; the unwraps of lines 212 and 217 run then.
RevParses == {CmdRevParseHead, CmdRevParseUpstream}

\* Line 199 and lines 233-235.
unpushed_after_log(r) ==
    IF stdout_is_empty(r) THEN "Pending" ELSE "UnpushedChanges"

UnpushedReturns(v) ==
    IF v = "Pending" THEN UNCHANGED <<ret, panicked>>
    ELSE IF v = "Panic"
    THEN panicked' = "get_unpushed_changes" /\ UNCHANGED ret
    ELSE /\ ret' = [ret EXCEPT !["get_unpushed_changes"] = Variant(v)]
         /\ UNCHANGED panicked

UnpushedAfterJoin(procs) ==
    IF \A c \in RevParses : Resolved(procs[c])
    THEN UnpushedReturns(unpushed_after_rev_parse(procs[CmdRevParseHead],
                                                  procs[CmdRevParseUpstream]))
    ELSE UNCHANGED <<ret, panicked>>

\* Lines 199-210, run by the poll that finds git log resolved.
UnpushedAfterLog(procs) ==
    IF unpushed_after_log(procs[CmdLog]) = "Pending"
    THEN \E failed \in SUBSET RevParses :
            /\ q' = Launch(procs, RevParses, failed)
            /\ launches' = Counted(launches, RevParses)
            /\ UnpushedAfterJoin(q')
    ELSE /\ q' = procs
         /\ UnpushedReturns(unpushed_after_log(procs[CmdLog]))
         /\ UNCHANGED launches

CallUnpushedChanges ==
    /\ panicked = ""
    /\ \A c \in GitUnpushed : q[c].st = "idle"
    /\ \E failed \in SUBSET {CmdLog} :
          /\ q' = Launch(q, {CmdLog}, failed)
          /\ launches' = Counted(launches, {CmdLog})
          /\ IF failed # {}
             THEN UnpushedReturns(unpushed_after_log(Failed))
             ELSE UNCHANGED <<ret, panicked>>

LogExits(dom) ==
    /\ panicked = ""
    /\ q[CmdLog].st = "running"
    /\ \E o \in dom[CmdLog] :
          UnpushedAfterLog([q EXCEPT ![CmdLog] = Exited(o)])

RevParseExits(dom) ==
    /\ panicked = ""
    /\ \E c \in RevParses :
          /\ q[c].st = "running"
          /\ \E o \in dom[c] :
                /\ q' = [q EXCEPT ![c] = Exited(o)]
                /\ UnpushedAfterJoin(q')
    /\ UNCHANGED launches

\* ------------------------------------------------------------------- main

Colours == {"green", "red", "yellow", "blue", "white", "plain"}

\* Lines 301-304.
chevron_a_of(exit_code) == IF exit_code = 0 THEN "green" ELSE "red"

\* Lines 328-332 and 343.
chevron_b_of(unstaged_changes) ==
    CASE unstaged_changes = Variant("None") -> "green"
      [] unstaged_changes = Variant("FilesChanged") -> "yellow"
      [] unstaged_changes = Variant("FilesNotAdded") -> "blue"
      [] OTHER -> "plain"

\* Lines 334-339 and 344.
chevron_c_of(unpushed_changes) ==
    CASE unpushed_changes = Variant("None") -> "green"
      [] unpushed_changes = Variant("UnpushedChanges") -> "yellow"
      [] unpushed_changes = Variant("UnpulledChanges") -> "blue"
      [] unpushed_changes = Variant("NoUpstreamBranch") -> "white"
      [] OTHER -> "plain"

InRepository(r) == r["is_in_git_repository"] = Bool(TRUE)

\* The futures main joins: line 320 in a repository, line 346 outside.
Joined(r) ==
    IF InRepository(r)
    THEN {"get_k8s_context", "get_k8s_namespace", "get_best_git_name",
          "get_unstaged_changes", "get_unpushed_changes"}
    ELSE {"get_k8s_context", "get_k8s_namespace"}

JoinReady(r) == \A f \in Joined(r) : r[f] # Pending

IsNotEmpty(x) == Len(x) # 0

\* A top_line with the namespace before the context.
top_line_namespace_first(r, fr, i) ==
    << unwrap_or(i.cwd, <<>>),
       unwrap_or(i.message, <<>>),
       IF InRepository(r) THEN r["get_best_git_name"].v ELSE Placeholder,
       unwrap_or(r["get_k8s_namespace"], Placeholder),
       unwrap_or(r["get_k8s_context"], Placeholder),
       fr.aws_profile,
       fr.aws_region >>

\* Lines 341 and 349-357: the seven fields, in order.
top_line(r, fr, i) ==
    << unwrap_or(i.cwd, <<>>),
       unwrap_or(i.message, <<>>),
       IF InRepository(r) THEN r["get_best_git_name"].v ELSE Placeholder,
       unwrap_or(r["get_k8s_context"], Placeholder),
       unwrap_or(r["get_k8s_namespace"], Placeholder),
       fr.aws_profile,
       fr.aws_region >>

\* Lines 359-365: the fields that are not empty, and the three chevrons.
Block(r, fr, i) ==
    [ top_line |-> top_line(r, fr, i),
      fields |-> SelectSeq(top_line(r, fr, i), IsNotEmpty),
      chevron_a |-> fr.chevron_a,
      chevron_b |-> IF InRepository(r)
                    THEN chevron_b_of(r["get_unstaged_changes"]) ELSE "plain",
      chevron_c |-> IF InRepository(r)
                    THEN chevron_c_of(r["get_unpushed_changes"]) ELSE "plain" ]

\* Lines 298-304: the two environment reads and the first chevron.
locals(i) ==
    [aws_profile |-> unwrap_or(get_aws_profile(i.env), Placeholder),
     aws_region |-> unwrap_or(get_aws_region(i.env), Placeholder),
     chevron_a |-> chevron_a_of(i.exit_code)]

\* Lines 293-304, run when the probe is resolved: the answer, the two
\* environment reads and the first chevron.  The first poll of join! follows.
ProbeReturns(procs) ==
    IF ~Resolved(procs[Probe]) THEN pc' = "probe" /\ UNCHANGED <<ret, frame>>
    ELSE /\ ret' = [ret EXCEPT !["is_in_git_repository"] =
                        Bool(is_in_git_repository(procs[Probe]))]
         /\ frame' = locals(inv)
         /\ pc' = "poll get_k8s_context"

\* Lines 285-293: the arguments are parsed, the working directory is asked
\* for (line 21 panics without one) and the probe is spawned.
MainStarts ==
    /\ pc = "main"
    /\ panicked = ""
    /\ IF inv.cwd = None
       THEN /\ panicked' = "get_current_working_directory"
            /\ UNCHANGED <<pc, q, launches, ret, frame>>
       ELSE /\ \E failed \in SUBSET {Probe} :
                  /\ q' = Launch(q, {Probe}, failed)
                  /\ launches' = Counted(launches, {Probe})
                  /\ ProbeReturns(q')
            /\ UNCHANGED panicked
    /\ UNCHANGED <<inv, printed>>

ProbeExits(dom) ==
    /\ pc = "probe"
    /\ panicked = ""
    /\ q[Probe].st = "running"
    /\ \E o \in dom[Probe] :
          /\ q' = [q EXCEPT ![Probe] = Exited(o)]
          /\ ProbeReturns(q')
    /\ UNCHANGED <<inv, launches, panicked, printed>>

\* The first poll of join! polls its futures in the order they are written;
\* a panic in one of them ends the poll there.
PollContext ==
    /\ pc = "poll get_k8s_context"
    /\ CallContext
    /\ pc' = IF panicked' = "" THEN "poll get_k8s_namespace" ELSE pc
    /\ UNCHANGED <<inv, frame, printed>>

\* A first poll that goes on to the git functions whatever the probe said.
PollNamespaceUngated ==
    /\ pc = "poll get_k8s_namespace"
    /\ CallNamespace
    /\ pc' = "poll get_best_git_name"
    /\ UNCHANGED <<inv, frame, printed>>

PollNamespace ==
    /\ pc = "poll get_k8s_namespace"
    /\ CallNamespace
    /\ pc' = IF InRepository(ret) THEN "poll get_best_git_name" ELSE "join"
    /\ UNCHANGED <<inv, frame, printed>>

PollBestGitName ==
    /\ pc = "poll get_best_git_name"
    /\ CallBestGitName
    /\ pc' = "poll get_unstaged_changes"
    /\ UNCHANGED <<inv, frame, printed>>

PollUnstagedChanges ==
    /\ pc = "poll get_unstaged_changes"
    /\ CallUnstagedChanges
    /\ pc' = "poll get_unpushed_changes"
    /\ UNCHANGED <<inv, frame, printed>>

PollUnpushedChanges ==
    /\ pc = "poll get_unpushed_changes"
    /\ CallUnpushedChanges
    /\ pc' = IF panicked' = "" THEN "join" ELSE pc
    /\ UNCHANGED <<inv, frame, printed>>

\* Lines 320-365: the poll that finds every joined future ready goes on to
\* build the line and print the block.
JoinReturns ==
    /\ IF panicked' = "" /\ JoinReady(ret')
       THEN /\ pc' = "done"
            /\ printed' = Append(printed, Block(ret', frame, inv))
       ELSE UNCHANGED <<pc, printed>>
    /\ UNCHANGED <<inv, frame>>

\* What the commands answer in the whole-program specification.
Ok(out) == Exit(TRUE, out)
Fails == Exit(FALSE, <<>>)

MainText == <<"m", "a", "i", "n">>
ProdText == <<"p", "r", "o", "d">>
DefaultText == <<"d", "e", "f", "a", "u", "l", "t">>

MainOutcomes ==
    [c \in Commands |->
        CASE c = Probe -> {Ok(TrueText \o <<"\n">>), Ok(FalseText \o <<"\n">>)}
          [] c = CmdContext -> {Ok(ProdText \o <<"\n">>), Fails}
          [] c = CmdNamespace -> {Ok(DefaultText \o <<"\n">>), Fails}
          [] c = CmdBranch -> {Ok(MainText \o <<"\n">>), Ok(<<>>)}
          [] c = CmdCommit -> {Ok(<<"c", "\n">>), Fails}
          [] c = CmdTag -> {Ok(<<"t", "\n">>), Ok(<<>>)}
          [] c = CmdDiff -> {Ok(<<>>), Fails}
          [] c = CmdDiffCached -> {Ok(<<>>), Fails}
          [] c = CmdLsFiles -> {Ok(<<>>), Ok(<<"f", "\n">>)}
          [] c = CmdLog -> {Ok(<<>>), Ok(<<"l", "\n">>)}
          [] c = CmdRevParseHead -> {Ok(<<"h", "\n">>), Ok(<<"u", "\n">>)}
          [] c = CmdRevParseUpstream -> {Ok(<<"u", "\n">>), Fails} ]

Await(A) == pc = "join" /\ A /\ JoinReturns

Next ==
    \/ MainStarts
    \/ ProbeExits(MainOutcomes)
    \/ PollContext
    \/ PollNamespace
    \/ PollBestGitName
    \/ PollUnstagedChanges
    \/ PollUnpushedChanges
    \/ Await(ContextExits(MainOutcomes))
    \/ Await(NamespaceExits(MainOutcomes))
    \/ Await(IdentityExits(MainOutcomes))
    \/ Await(DiffExits(MainOutcomes))
    \/ Await(DiffTimesOut)
    \/ Await(LsFilesExits(MainOutcomes))
    \/ Await(LogExits(MainOutcomes))
    \/ Await(RevParseExits(MainOutcomes))

Spec == Init /\ [][Next]_vars

\* ------------------------------------------- function-level specifications
\* One async function called on its own, its commands exiting with every
\* status and every stdout of at most MaxLen bytes.

AllOutcomes == [c \in Commands |-> Outcomes]

InitCall == InitWith({Harness}, "call")

Called == UNCHANGED <<pc, inv, frame, printed>>

NextBestGitName ==
    \/ CallBestGitName /\ Called
    \/ IdentityExits(AllOutcomes) /\ Called

SpecBestGitName == InitCall /\ [][NextBestGitName]_vars

NextUnstagedChanges ==
    \/ CallUnstagedChanges /\ Called
    \/ DiffExits(AllOutcomes) /\ Called
    \/ DiffTimesOut /\ Called
    \/ LsFilesExits(AllOutcomes) /\ Called

SpecUnstagedChanges == InitCall /\ [][NextUnstagedChanges]_vars

\* get_unstaged_changes with the timer of line 154 taken as fair: while
\* git diff --quiet is awaited and has not exited, the 500 ms do expire.
SpecUnstagedChangesTimed ==
    SpecUnstagedChanges /\ WF_vars(DiffTimesOut /\ Called)

NextUnpushedChanges ==
    \/ CallUnpushedChanges /\ Called
    \/ LogExits(AllOutcomes) /\ Called
    \/ RevParseExits(AllOutcomes) /\ Called

SpecUnpushedChanges == InitCall /\ [][NextUnpushedChanges]_vars

\* The two kubectl functions, each called on its own.
NextKubectl ==
    \/ CallContext /\ Called
    \/ CallNamespace /\ Called
    \/ ContextExits(AllOutcomes) /\ Called
    \/ NamespaceExits(AllOutcomes) /\ Called

SpecKubectl == InitCall /\ [][NextKubectl]_vars

\* main up to the probe's answer (lines 285-304), the probe printing true,
\* false or a near miss of true, with up to MaxLen bytes put in anywhere, or
\* just those bytes.
Inserted(text, k, bytes) ==
    SubSeq(text, 1, k) \o bytes \o SubSeq(text, k + 1, Len(text))

ProbeTexts == {TrueText, FalseText, <<"t", "r", "u">>, TrueText \o <<"e">>}

ProbeStdouts ==
    BytesUpTo(MaxLen) \cup
    UNION {{Inserted(t, k, b) : k \in 0..Len(t), b \in BytesUpTo(MaxLen)} :
              t \in ProbeTexts}

ProbeOutcomes ==
    [c \in Commands |-> {Exit(ok, out) : ok \in BOOLEAN, out \in ProbeStdouts}]

NextProbe ==
    \/ MainStarts
    \/ ProbeExits(ProbeOutcomes)

SpecProbe == InitWith({Harness}, "main") /\ [][NextProbe]_vars

\* Lines 298-304 on their own, in every environment that sets each of the
\* four variables to at most MaxEnvLen bytes or leaves it unset.
EnvValues == {None} \cup {Some(v) : v \in BytesUpTo(MaxEnvLen)}

Environments == {[Harness EXCEPT !.env = e] : e \in [EnvVars -> EnvValues]}

InitEnvironment == InitWith(Environments, "call")

ReadEnvironment ==
    /\ frame = NoFrame
    /\ frame' = locals(inv)
    /\ UNCHANGED <<pc, inv, q, launches, ret, panicked, printed>>

NextEnvironment == ReadEnvironment

SpecEnvironment == InitEnvironment /\ [][NextEnvironment]_vars

\* ----------------------------------------------------------------- claims

ExitedNonZero(c) == q[c].st = "exited" /\ ~q[c].ok

\* The command exited with status zero and text that is not empty once its
\* whitespace is removed.
Resolves(c) ==
    /\ q[c].st = "exited"
    /\ q[c].ok
    /\ from_utf8_ok(q[c].out)
    /\ retain_non_whitespace(q[c].out) # <<>>

Text(c) == retain_non_whitespace(q[c].out)

\* C1: whatever its stdout, a command that exits with a non-zero status gives
\* an absent value: None from the functions that return an Option, false
\* from the probe.
C1_NonZeroExitIsAbsent ==
    /\ ExitedNonZero(CmdContext) => ret["get_k8s_context"] = None
    /\ ExitedNonZero(CmdNamespace) => ret["get_k8s_namespace"] = None
    /\ ExitedNonZero(CmdBranch) => ret["get_git_branch"] = None
    /\ ExitedNonZero(CmdCommit) => ret["get_git_commit"] = None
    /\ ExitedNonZero(CmdTag) => ret["get_git_tag"] = None
    /\ ExitedNonZero(Probe) => ret["is_in_git_repository"] = Bool(FALSE)

\* C2: when the working directory can be determined, no outcome of the
\* commands makes the invocation panic.
C2_NeverAborts == inv.cwd # None => panicked = ""

DiffFailed(c) == q[c].st = "error" \/ ExitedNonZero(c)

\* C3: without a timeout, get_unstaged_changes returns one of the three
\* variants: FilesChanged when either diff failed to launch or exited
\* non-zero, whatever git ls-files says; otherwise None when the stdout of
\* git ls-files is empty and FilesNotAdded when it is not.
C3_UnstagedClassification ==
    LET r == ret["get_unstaged_changes"]
    IN  (r # Pending /\ q[CmdDiff].st # "timeout") =>
           /\ r.k \in UnstagedChanges
           /\ (\E c \in Diffs : DiffFailed(c)) => r = Variant("FilesChanged")
           /\ ((\A c \in Diffs : ~DiffFailed(c)) /\ q[CmdLsFiles].st = "exited")
                 => r = IF q[CmdLsFiles].out = <<>>
                        THEN Variant("None") ELSE Variant("FilesNotAdded")

\* C3's case: both diffs quiet, git ls-files printed nothing, None returned.
C3_Witness ==
    /\ ret["get_unstaged_changes"] = Variant("None")
    /\ \A c \in Diffs : q[c].st = "exited" /\ q[c].ok
    /\ q[CmdLsFiles].st = "exited"
    /\ q[CmdLsFiles].out = <<>>

SameHash ==
    /\ from_utf8_ok(q[CmdRevParseHead].out)
    /\ Text(CmdRevParseHead) = Text(CmdRevParseUpstream)

UpstreamFails ==
    \/ q[CmdRevParseUpstream].st = "error"
    \/ ExitedNonZero(CmdRevParseUpstream)
    \/ /\ q[CmdRevParseUpstream].st = "exited"
       /\ ~from_utf8_ok(q[CmdRevParseUpstream].out)

\* C5: when the stdout of git log is empty and git rev-parse @{u} does not
\* resolve (it did not launch, or exited non-zero with any stdout, or its
\* output is not text), the result is NoUpstreamBranch.
C5_NoUpstreamWhenUnresolved ==
    (/\ q[CmdLog].st = "exited"
     /\ q[CmdLog].out = <<>>
     /\ \A c \in RevParses : Resolved(q[c])
     /\ UpstreamFails)
       => ret["get_unpushed_changes"] = Variant("NoUpstreamBranch")

\* C6: a git log that fails to launch or exits non-zero is treated as an
\* empty result: the two rev-parse commands are run and the failure does not
\* give UnpushedChanges.
C6_FailedLogIsEmptyResult ==
    (q[CmdLog].st = "error" \/ ExitedNonZero(CmdLog)) =>
       /\ ret["get_unpushed_changes"] # Variant("UnpushedChanges")
       /\ \A c \in RevParses : launches[c] = 1

\* C7: in a repository where none of branch, tag and commit resolves, the
\* identity field of the printed line is the placeholder "-".
C7_UnresolvedIdentityIsPlaceholder ==
    (/\ pc = "done"
     /\ InRepository(ret)
     /\ \A c \in GitIdentity : ~Resolves(c))
       => /\ printed[1].top_line[3] = Placeholder
          /\ \E i \in 1..Len(printed[1].fields) :
                printed[1].fields[i] = Placeholder

\* C8: when at least one of branch, commit and tag resolves,
\* get_best_git_name returns the branch if it resolved, else the commit if it
\* resolved, else the empty string, followed by " [tag]" exactly when the tag
\* resolved.
C8_BestGitName ==
    (/\ ret["get_best_git_name"] # Pending
     /\ \E c \in GitIdentity : Resolves(c))
       => ret["get_best_git_name"] =
             String((IF Resolves(CmdBranch) THEN Text(CmdBranch)
                     ELSE IF Resolves(CmdCommit) THEN Text(CmdCommit)
                     ELSE <<>>)
                    \o (IF Resolves(CmdTag)
                        THEN <<" ", "[">> \o Text(CmdTag) \o <<"]">>
                        ELSE <<>>))

\* C8's case: branch, commit and tag all resolved, the name returned.
C8_Witness ==
    /\ Resolves(CmdBranch)
    /\ Resolves(CmdCommit)
    /\ Resolves(CmdTag)
    /\ Text(CmdBranch) # Text(CmdCommit)
    /\ ret["get_best_git_name"] # Pending

ProbeSaysTrue ==
    /\ q[Probe].st = "exited"
    /\ q[Probe].ok
    /\ from_utf8_ok(q[Probe].out)
    /\ Text(Probe) = TrueText

\* C9: the probe is spawned exactly once and is resolved before any other
\* git command is spawned; when it answers false, none of the nine git
\* commands of the identity resolver and of the two classifiers is spawned.
C9_ProbeGatesGit ==
    /\ launches[Probe] <= 1
    /\ (pc # "main" => launches[Probe] = 1)
    /\ \A c \in GitGated :
          (launches[c] > 0 \/ q[c].st # "idle")
             => Resolved(q[Probe]) /\ ProbeSaysTrue

\* C9's case: the probe did not say true and the block was printed.
C9_Witness ==
    /\ pc = "done"
    /\ Resolved(q[Probe])
    /\ ~ProbeSaysTrue
    /\ \A c \in GitGated : launches[c] = 0

Ended == pc = "done" \/ panicked \notin {"", "get_current_working_directory"}

\* C10: in every invocation, in a repository or not, the two kubectl commands
\* are each spawned exactly once, and the four fields they and the
\* environment give do not depend on the probe or on any git command.
C10_CollectorsAlwaysRunOnce ==
    /\ Ended => \A c \in Kubectl : launches[c] = 1
    /\ pc = "done" =>
          /\ printed[1].top_line[4] = unwrap_or(ret["get_k8s_context"], Placeholder)
          /\ printed[1].top_line[5] = unwrap_or(ret["get_k8s_namespace"], Placeholder)
          /\ printed[1].top_line[6] = unwrap_or(inv.env["AWS_PROFILE"], Placeholder)
          /\ printed[1].top_line[7] =
                IF inv.env["AWS_REGION"] # None THEN inv.env["AWS_REGION"].v
                ELSE IF inv.env["AWS_DEFAULT_REGION"] # None
                THEN inv.env["AWS_DEFAULT_REGION"].v
                ELSE IF inv.env["AWS_PROFILE_REGION"] # None
                THEN inv.env["AWS_PROFILE_REGION"].v
                ELSE Placeholder

\* The command is no longer awaited because it ended: it exited, it did not
\* launch, or (git diff --quiet only) its timer expired.
Completed(c) ==
    \/ Resolved(q[c])
    \/ c = CmdDiff /\ q[c].st = "timeout"

Returned(f) == ret[f] # Pending

\* The barriers of the identity resolver, of the two hash queries and of
\* main: a result only when every sibling that was launched has completed.
JoinBarriers ==
    /\ Returned("get_best_git_name") => \A c \in GitIdentity : Completed(c)
    /\ (Returned("get_unpushed_changes") /\ \E c \in RevParses : launches[c] > 0)
          => \A c \in RevParses : Completed(c)
    /\ printed # <<>> => \A f \in Joined(ret) : Returned(f)

\* One of the two diff futures gave Err: a failed launch or the expired timer.
DiffGaveErr == \E c \in Diffs : q[c].st \in {"error", "timeout"}

\* C11 as stated: no stage result while a sibling query of that stage is
\* still running, for the three identity queries, the two diff probes (a
\* timeout completing the working-tree probe only), the two hash queries and
\* the five functions main joins.
C11_StageWaitsForAllSiblings ==
    /\ JoinBarriers
    /\ Returned("get_unstaged_changes") => \A c \in Diffs : Completed(c)

\* C11 as amended: the same, except that the diff stage ends at once, with
\* the other diff probe still running, when one of the two gives Err.
C11_StageWaitsUnlessDiffErr ==
    /\ JoinBarriers
    /\ (Returned("get_unstaged_changes") /\ ~DiffGaveErr)
          => \A c \in Diffs : Completed(c)
    /\ \A c \in Diffs : q[c].st = "dropped" =>
          /\ DiffGaveErr
          /\ ret["get_unstaged_changes"] = Variant("FilesChanged")

\* C11's case: the block is printed in a repository, every sibling of every
\* stage having exited.
C11_Witness ==
    /\ pc = "done"
    /\ InRepository(ret)
    /\ \A c \in GitIdentity \cup Diffs \cup RevParses : q[c].st = "exited"

\* The expired timer resolves the probe as a failure: FilesChanged at once,
\* git ls-files not launched; and git diff --quiet alone can time out.
TimeoutIsFilesChanged ==
    /\ q[CmdDiff].st = "timeout" =>
          /\ ret["get_unstaged_changes"] = Variant("FilesChanged")
          /\ launches[CmdLsFiles] = 0
    /\ \A c \in Commands \ {CmdDiff} : q[c].st # "timeout"

\* C12: when the 500 ms timer expires before git diff --quiet has exited,
\* get_unstaged_changes returns FilesChanged, never None or FilesNotAdded;
\* a git diff --quiet that never exits does not keep the function waiting:
\* the timer expires and the function returns; no other command can time out.
C12_TimeoutResolvesAsFilesChanged ==
    /\ []TimeoutIsFilesChanged
    /\ (q[CmdDiff].st = "running")
          ~> (q[CmdDiff].st = "exited" \/ Returned("get_unstaged_changes"))

\* C12's case: the timer expired while both diff probes were running.
C12_Witness ==
    /\ q[CmdDiff].st = "timeout"
    /\ q[CmdDiffCached].st = "dropped"
    /\ ret["get_unstaged_changes"] = Variant("FilesChanged")

\* The command exited with status zero and text that is empty once its
\* whitespace is removed.
EmptyOnceStripped(c) ==
    /\ q[c].st = "exited"
    /\ q[c].ok
    /\ from_utf8_ok(q[c].out)
    /\ Text(c) = <<>>

\* C13: the whitespace of a successful output is removed before the output is
\* classified, so an output of whitespace only is classified as the empty
\* output is; for git ls-files, get_unstaged_changes returns None (no
\* untracked file) on either.
C13_WhitespaceOnlyIsEmpty ==
    (EmptyOnceStripped(CmdLsFiles) /\ Returned("get_unstaged_changes"))
        => ret["get_unstaged_changes"] = Variant("None")

\* C14: a kubectl command that exits with status zero and an output that is
\* empty once its whitespace is removed gives an absent value, None, which
\* main renders as "-": for get_k8s_context and for get_k8s_namespace.
C14_EmptyKubectlOutputIsAbsent ==
    /\ EmptyOnceStripped(CmdContext) => ret["get_k8s_context"] = None
    /\ EmptyOnceStripped(CmdNamespace) => ret["get_k8s_namespace"] = None

\* The variable is set, whatever its bytes.
IsSet(name) == inv.env[name] # None

\* The variable is set to valid Unicode.
IsText(name) == IsSet(name) /\ from_utf8_ok(inv.env[name].v)

EnvironmentRead == frame # NoFrame

\* C15 as stated: the region is AWS_REGION's value whenever AWS_REGION is
\* set, whatever the other two are; otherwise AWS_DEFAULT_REGION's when it is
\* set; otherwise AWS_PROFILE_REGION's when it is set; and absent (rendered
\* "-") only when none of the three is set.
C15_RegionPrecedence ==
    EnvironmentRead =>
        frame.aws_region =
            IF IsSet("AWS_REGION") THEN inv.env["AWS_REGION"].v
            ELSE IF IsSet("AWS_DEFAULT_REGION")
            THEN inv.env["AWS_DEFAULT_REGION"].v
            ELSE IF IsSet("AWS_PROFILE_REGION")
            THEN inv.env["AWS_PROFILE_REGION"].v
            ELSE Placeholder

\* C15 as amended: the same precedence, a variable counting as set only when
\* its value is valid Unicode.
C15_RegionPrecedenceOfText ==
    EnvironmentRead =>
        frame.aws_region =
            IF IsText("AWS_REGION") THEN inv.env["AWS_REGION"].v
            ELSE IF IsText("AWS_DEFAULT_REGION")
            THEN inv.env["AWS_DEFAULT_REGION"].v
            ELSE IF IsText("AWS_PROFILE_REGION")
            THEN inv.env["AWS_PROFILE_REGION"].v
            ELSE Placeholder

\* C15's case: the three variables are set to text, AWS_REGION's differing
\* from AWS_DEFAULT_REGION's, and the region has been read.
C15_Witness ==
    /\ EnvironmentRead
    /\ \A n \in EnvVars \ {"AWS_PROFILE"} : IsText(n)
    /\ inv.env["AWS_REGION"] # inv.env["AWS_DEFAULT_REGION"]
    /\ frame.aws_region = inv.env["AWS_REGION"].v

\* One whole block, written once every function main joins has returned.
BlockIsWholeAndLate ==
    /\ Len(printed) <= 1
    /\ printed # <<>> =>
          /\ \A f \in Joined(ret) : Returned(f)
          /\ printed[1] = Block(ret, frame, inv)

\* C16: an invocation that ends has written exactly one block, whole, and
\* not before every function of the last join! has returned: never none,
\* never part of one, never two.
C16_ExactlyOneBlock ==
    /\ BlockIsWholeAndLate
    /\ Ended => Len(printed) = 1

ExitedWith(c, out) == q[c].st = "exited" /\ q[c].ok /\ q[c].out = out

\* The invocation of C17, at its end: exit code 0 and no message given,
\* AWS_PROFILE=dev and no region variable; a repository on branch main with
\* no tag, nothing changed, nothing untracked, nothing unpushed and HEAD at
\* the upstream's commit; context prod and namespace default.
CleanSyncedInvocation ==
    /\ pc = "done"
    /\ inv.exit_code = 0
    /\ inv.message = None
    /\ inv.env["AWS_PROFILE"] = Some(<<"d", "e", "v">>)
    /\ \A n \in EnvVars \ {"AWS_PROFILE"} : inv.env[n] = None
    /\ ExitedWith(Probe, TrueText \o <<"\n">>)
    /\ ExitedWith(CmdBranch, MainText \o <<"\n">>)
    /\ ExitedWith(CmdTag, <<>>)
    /\ ExitedWith(CmdContext, ProdText \o <<"\n">>)
    /\ ExitedWith(CmdNamespace, DefaultText \o <<"\n">>)
    /\ \A c \in GitUnstaged \cup {CmdLog} : ExitedWith(c, <<>>)
    /\ \A c \in RevParses : ExitedWith(c, <<"u", "\n">>)

AllGreen ==
    /\ printed[1].chevron_a = "green"
    /\ printed[1].chevron_b = "green"
    /\ printed[1].chevron_c = "green"

\* C17 as stated: in that invocation the fields after the working directory
\* are exactly main, prod, default, dev, in that order, and the three
\* chevrons are green.
C17_CleanSyncedBlock ==
    CleanSyncedInvocation =>
        /\ Len(printed) = 1
        /\ Len(printed[1].fields) = 5
        /\ SubSeq(printed[1].fields, 2, 5)
              = <<MainText, ProdText, DefaultText, <<"d", "e", "v">> >>
        /\ AllGreen

\* C17 as amended: the fields after the working directory are main, prod,
\* default, dev and then "-", the placeholder of the region that is not set;
\* the three chevrons are green.
C17_CleanSyncedBlockWithRegionPlaceholder ==
    CleanSyncedInvocation =>
        /\ Len(printed) = 1
        /\ printed[1].fields
              = <<inv.cwd.v, MainText, ProdText, DefaultText,
                  <<"d", "e", "v">>, Placeholder>>
        /\ AllGreen

\* C17's case: that invocation has ended and written its block.
C17_Witness == CleanSyncedInvocation /\ printed # <<>>

ExitedZero(c) == q[c].st = "exited" /\ q[c].ok

\* C18: git ls-files is spawned only once both diff probes have exited with
\* status zero, and at most once; when either diff probe fails to launch,
\* exits non-zero or times out, the result is FilesChanged and git ls-files
\* is never spawned.
C18_LsFilesOnlyAfterQuietDiffs ==
    /\ launches[CmdLsFiles] <= 1
    /\ launches[CmdLsFiles] > 0 => \A c \in Diffs : ExitedZero(c)
    /\ (\A c \in Diffs : ExitedZero(c)) => launches[CmdLsFiles] = 1
    /\ ( /\ \E c \in Diffs : DiffFailed(c) \/ q[c].st = "timeout"
         /\ Returned("get_unstaged_changes") )
          => /\ ret["get_unstaged_changes"] = Variant("FilesChanged")
             /\ launches[CmdLsFiles] = 0

\* C18's case: git ls-files is running, both diff probes having exited with
\* status zero.
C18_Witness ==
    /\ q[CmdLsFiles].st = "running"
    /\ \A c \in Diffs : ExitedZero(c)

\* C19: is_in_git_repository returns true if and only if the probe launched,
\* exited with status zero, printed valid text, and that text with all its
\* whitespace removed is exactly "true".
C19_ProbeTrueIffStrippedTrue ==
    Returned("is_in_git_repository") =>
        (ret["is_in_git_repository"] = Bool(TRUE) <=> ProbeSaysTrue)

\* C19's case: the probe's output has whitespace in the middle of "true", and
\* the answer is true.
C19_Witness ==
    /\ ret["is_in_git_repository"] = Bool(TRUE)
    /\ Len(q[Probe].out) > 4
    /\ q[Probe].out[3] \in Whitespace

\* What the commands' outcomes alone give, the functions run one after the
\* other on the final process table: each function's value from the
\* outcomes of its own commands.
NameByOutcomes ==
    get_best_git_name(get_git_branch(q[CmdBranch]),
                      get_git_commit(q[CmdCommit]),
                      get_git_tag(q[CmdTag]))

UnstagedByOutcomes ==
    LET v == unstaged_after_diffs(q[CmdDiff], q[CmdDiffCached])
    IN  IF v = "Pending" THEN unstaged_after_ls_files(q[CmdLsFiles]) ELSE v

UnpushedByOutcomes ==
    LET v == unpushed_after_log(q[CmdLog])
    IN  IF v = "Pending"
        THEN unpushed_after_rev_parse(q[CmdRevParseHead],
                                      q[CmdRevParseUpstream])
        ELSE v

ByOutcomes ==
    [ is_in_git_repository |-> Bool(is_in_git_repository(q[Probe])),
      get_k8s_context |-> get_k8s_context(q[CmdContext]),
      get_k8s_namespace |-> get_k8s_namespace(q[CmdNamespace]),
      get_best_git_name |-> String(NameByOutcomes),
      get_unstaged_changes |-> Variant(UnstagedByOutcomes),
      get_unpushed_changes |-> Variant(UnpushedByOutcomes) ]

\* C20: when no timer expired, the block that is printed is the one the
\* commands' outcomes give, whatever the order the commands were polled and
\* exited in: no command whose outcome the block depends on is still
\* running when the block is built, and the fields and the three chevrons
\* are a function of the outcomes and the invocation alone.
C20_BlockIsAFunctionOfOutcomes ==
    (pc = "done" /\ q[CmdDiff].st # "timeout") =>
        /\ \A c \in Commands : q[c].st # "running"
        /\ printed = <<Block(ByOutcomes, locals(inv), inv)>>

\* C20's case: a block printed in a repository, every git function having
\* had to wait for its last command: branch and tag both present, an
\* untracked file found by git ls-files, the two hashes compared.
C20_Witness ==
    /\ pc = "done"
    /\ q[CmdDiff].st # "timeout"
    /\ Resolves(CmdBranch) /\ Resolves(CmdTag)
    /\ ret["get_unstaged_changes"] = Variant("FilesNotAdded")
    /\ ret["get_unpushed_changes"] = Variant("UnpulledChanges")

====
